---- MODULE Spec2Model ----
(***************************************************************************)
(* Model of scripts/enrich-articles.py: the Domain Classifier (get_domain), *)
(* the Text Extractor, the Content Fetcher (fetch_full_text) and the       *)
(* Batch Selector / Enrichment Orchestrator (enrich_articles).             *)
(*                                                                         *)
(* Python strings are sequences of one-character strings, so that prefix   *)
(* stripping, truncation and length are computed, not assumed.             *)
(***************************************************************************)
EXTENDS Integers, Sequences, FiniteSets, TLC

VARIABLES
    d_pc, d_url, d_out,                 \* one call of get_domain
    \* one call of fetch_full_text: f_resp is what the network answered,
    \* f_requests the number of requests issued
    f_pc, f_url, f_budget, f_resp, f_out, f_requests


VARIABLES
    \* one or more calls of enrich_articles on a candidate collection
    pc,             \* position of the coordinating thread
    articles,       \* the candidate collection, mutated in place
    articles0,      \* the collection as it was when the current call began
    min_score, max_articles, max_chars,
    unique,         \* deduplicated eligible articles, sorted (line 164)
    to_fetch,       \* the WorkList (line 165)
    futures,        \* one future per WorkList entry (line 177)
    results,        \* outcome per URL (line 174)
    attempted, success, cf_count,
    ret             \* the returned triple, << >> before the return

VARIABLES
    \* the Text Extractor: the markup as the events of HTMLParser, the
    \* extractor's buffer and flag, the text returned
    x_pc, x_doc, x_st, x_out

VARIABLES
    \* one run of main
    m_pc,           \* position in main
    m_kind,         \* what the input path holds
    m_output,       \* output_path: the input path or a path of its own
    m_files,        \* the content of the input and the output path
    m_data,         \* the loaded document
    m_exit          \* the exit status, -1 before main returns

domainVars == <<d_pc, d_url, d_out>>
fetchVars == <<f_pc, f_url, f_budget, f_resp, f_out, f_requests>>
enrichVars ==
    <<pc, articles, articles0, min_score, max_articles, max_chars, unique,
      to_fetch, futures, results, attempted, success, cf_count, ret>>
extractVars == <<x_pc, x_doc, x_st, x_out>>
mainVars == <<m_pc, m_kind, m_output, m_files, m_data, m_exit>>
vars == <<domainVars, fetchVars, enrichVars, extractVars, mainVars>>

----------------------------------------------------------------------------
(* Strings *)

EmptyStr == << >>

\* s * n  (the string s repeated n times)
Rep(s, n) ==
    IF n <= 0 THEN EmptyStr
    ELSE [i \in 1..(n * Len(s)) |-> s[((i - 1) % Len(s)) + 1]]

Min(S) == CHOOSE x \in S : \A y \in S : x <= y

Max(S) == CHOOSE x \in S : \A y \in S : x >= y

\* the elements of s at the positions where keep is TRUE, in order
Kept(p) == p[2]

KeepWhere(s, keep) ==
    LET marked == [i \in 1..Len(s) |-> <<s[i], keep[i]>>]
        chosen == SelectSeq(marked, Kept)
    IN  [k \in 1..Len(chosen) |-> chosen[k][1]]

\* s[:n] for any integer n: a negative n counts from the end
PySlicePrefix(s, n) ==
    IF n >= 0
    THEN SubSeq(s, 1, IF n < Len(s) THEN n ELSE Len(s))
    ELSE SubSeq(s, 1, IF Len(s) + n > 0 THEN Len(s) + n ELSE 0)

UpperLetters ==
    <<"A","B","C","D","E","F","G","H","I","J","K","L","M",
      "N","O","P","Q","R","S","T","U","V","W","X","Y","Z">>

LowerLetters ==
    <<"a","b","c","d","e","f","g","h","i","j","k","l","m",
      "n","o","p","q","r","s","t","u","v","w","x","y","z">>

Digits == <<"0","1","2","3","4","5","6","7","8","9">>

LowerChar(c) ==
    IF \E i \in 1..26 : UpperLetters[i] = c
    THEN LowerLetters[CHOOSE i \in 1..26 : UpperLetters[i] = c]
    ELSE c

\* str.lower()
Lower(s) == [i \in 1..Len(s) |-> LowerChar(s[i])]

\* str.lstrip(chars): drops every leading character that is in chars
LStripChars(s, chars) ==
    LET rest == {i \in 1..Len(s) : s[i] \notin chars}
    IN  IF rest = {} THEN EmptyStr ELSE SubSeq(s, Min(rest), Len(s))

StartsWith(s, p) == Len(s) >= Len(p) /\ SubSeq(s, 1, Len(p)) = p

\* the characters of the argument of lstrip("www.")
WwwDotChars == {"w", "."}

WwwDot == <<"w","w","w",".">>

\* index of the first character of s at or after position i that is in
\* chars, or Len(s) + 1
FindAny(s, chars, i) ==
    LET hits == {k \in i..Len(s) : s[k] \in chars}
    IN  IF hits = {} THEN Len(s) + 1 ELSE Min(hits)

Contains(s, c) == \E i \in 1..Len(s) : s[i] = c

----------------------------------------------------------------------------
(* Domain Classifier *)

SchemeChars ==
    {UpperLetters[i] : i \in 1..26} \cup {LowerLetters[i] : i \in 1..26}
    \cup {Digits[i] : i \in 1..10} \cup {"+", "-", "."}

Letters == {UpperLetters[i] : i \in 1..26} \cup {LowerLetters[i] : i \in 1..26}

\* urlparse(url): the text left after a leading "scheme:" is removed
AfterScheme(url) ==
    LET i == FindAny(url, {":"}, 1)
    IN  IF /\ i > 1
           /\ i <= Len(url)
           /\ url[1] \in Letters
           /\ \A k \in 1..(i - 1) : url[k] \in SchemeChars
        THEN SubSeq(url, i + 1, Len(url))
        ELSE url

\* urlparse(url).netloc: what follows "//" up to the first of / ? #
Netloc(url) ==
    LET rest == AfterScheme(url)
    IN  IF StartsWith(rest, <<"/","/">>)
        THEN SubSeq(rest, 3, FindAny(rest, {"/", "?", "#"}, 3) - 1)
        ELSE EmptyStr

\* urlparse raises ValueError("Invalid IPv6 URL") on an unmatched bracket
UrlparseRaises(url) ==
    LET n == Netloc(url)
    IN  \/ (Contains(n, "[") /\ ~Contains(n, "]"))
        \/ (Contains(n, "]") /\ ~Contains(n, "["))

get_domain(url) ==
    IF UrlparseRaises(url)
    THEN EmptyStr
    ELSE LStripChars(Lower(Netloc(url)), WwwDotChars)

SKIP_DOMAINS ==
    {<<"t","w","i","t","t","e","r",".","c","o","m">>,
     <<"x",".","c","o","m">>,
     <<"r","e","d","d","i","t",".","c","o","m">>,
     <<"o","l","d",".","r","e","d","d","i","t",".","c","o","m">>,
     <<"g","i","t","h","u","b",".","c","o","m">>,
     <<"y","o","u","t","u","b","e",".","c","o","m">>,
     <<"y","o","u","t","u",".","b","e">>,
     <<"n","y","t","i","m","e","s",".","c","o","m">>,
     <<"b","l","o","o","m","b","e","r","g",".","c","o","m">>,
     <<"w","s","j",".","c","o","m">>,
     <<"f","t",".","c","o","m">>,
     <<"a","r","x","i","v",".","o","r","g">>}

blog_domains ==
    {<<"s","i","m","o","n","w","i","l","l","i","s","o","n",".","n","e","t">>,
     <<"o","v","e","r","r","e","a","c","t","e","d",".","i","o">>,
     <<"e","l","i",".","t","h","e","g","r","e","e","n","p","l","a","c","e",".","n","e","t">>,
     <<"m","a","t","k","l","a","d",".","g","i","t","h","u","b",".","i","o">>,
     <<"l","u","c","u","m","r",".","p","o","c","o","o",".","o","r","g">>,
     <<"d","e","v","b","l","o","g","s",".","m","i","c","r","o","s","o","f","t",".","c","o","m">>,
     <<"r","a","c","h","e","l","b","y","t","h","e","b","a","y",".","c","o","m">>,
     <<"x","e","i","a","s","o",".","n","e","t">>,
     <<"p","l","u","r","a","l","i","s","t","i","c",".","n","e","t">>,
     <<"l","c","a","m","t","u","f",".","s","u","b","s","t","a","c","k",".","c","o","m">>,
     <<"h","i","l","l","e","l","w","a","y","n","e",".","c","o","m">>,
     <<"d","y","n","o","m","i","g","h","t",".","n","e","t">>,
     <<"g","e","o","f","f","r","e","y","l","i","t","t",".","c","o","m">>,
     <<"f","a","b","i","e","n","s","a","n","g","l","a","r","d",".","n","e","t">>,
     <<"b","l","o","g",".","c","l","o","u","d","f","l","a","r","e",".","c","o","m">>,
     <<"a","n","t","i","r","e","z",".","c","o","m">>,
     <<"p","a","u","l","g","r","a","h","a","m",".","c","o","m">>,
     <<"d","a","n","l","u","u",".","c","o","m">>,
     <<"l","a","t","e","n","t",".","s","p","a","c","e">>,
     <<"w","w","w",".","l","a","t","e","n","t",".","s","p","a","c","e">>}

----------------------------------------------------------------------------
(* One call of get_domain on a URL assembled from scheme, "www." prefix,   *)
(* host and path.                                                          *)

Schemes == {<<"h","t","t","p","s",":","/","/">>, <<"H","T","T","P",":","/","/">>}

Prefixes == {EmptyStr, WwwDot, <<"W","W","W",".">>}

OtherHosts == {<<"w","i","r","e","d",".","c","o","m">>, <<"E","x","a","m","p","l","e",".","C","O","M">>, <<"w","e","b",".","d","e","v">>, <<"e","x","a","m","p","l","e",".","c","o","m">>, <<"[",":",":","1">>}

Paths == {EmptyStr, <<"/","a">>, <<"?","q","=","1">>}

Urls ==
    {s \o p \o h \o q :
        s \in Schemes, p \in Prefixes,
        h \in SKIP_DOMAINS \cup blog_domains \cup OtherHosts, q \in Paths}
    \cup {<<"m","a","i","l","t","o",":","x">>}

IdleDomain == d_pc = "idle" /\ d_url = EmptyStr /\ d_out = EmptyStr

NoResponse == [kind |-> "none"]

NoOutcome == [method |-> "none"]

IdleFetch ==
    /\ f_pc = "idle" /\ f_url = EmptyStr /\ f_budget = 0
    /\ f_resp = NoResponse /\ f_out = NoOutcome /\ f_requests = 0

IdleEnrich ==
    /\ pc = "idle" /\ articles = << >> /\ articles0 = << >>
    /\ min_score = 0 /\ max_articles = 0 /\ max_chars = 0
    /\ unique = << >> /\ to_fetch = << >> /\ futures = << >>
    /\ results = << >>
    /\ attempted = 0 /\ success = 0 /\ cf_count = 0
    /\ ret = << >>

IdleExtract ==
    /\ x_pc = "idle" /\ x_doc = << >>
    /\ x_st = [text |-> EmptyStr, skip |-> FALSE] /\ x_out = EmptyStr

NoFile == [state |-> "absent", articles |-> << >>, enrichment |-> << >>]

NoData == [loaded |-> FALSE, enrichment |-> << >>]

IdleMain ==
    /\ m_pc = "idle" /\ m_kind = "none" /\ m_output = "none"
    /\ m_files = [input |-> NoFile, output |-> NoFile]
    /\ m_data = NoData /\ m_exit = -1

InitDomain ==
    /\ d_pc = "call"
    /\ d_url \in Urls
    /\ d_out = EmptyStr
    /\ IdleFetch
    /\ IdleEnrich
    /\ IdleExtract
    /\ IdleMain

GetDomain ==
    /\ d_pc = "call"
    /\ d_out' = get_domain(d_url)
    /\ d_pc' = "ret"
    /\ UNCHANGED <<d_url, fetchVars, enrichVars, extractVars, mainVars>>

NextDomain == GetDomain

SpecDomain == InitDomain /\ [][NextDomain]_vars

\* the host of the claim: lower-cased, one leading "www." removed
StripPrefixOnce(s, p) ==
    IF StartsWith(s, p) THEN SubSeq(s, Len(p) + 1, Len(s)) ELSE s

NormalizedHost(url) == StripPrefixOnce(Lower(Netloc(url)), WwwDot)

\* C3: get_domain returns the lower-cased host with exactly one leading
\* "www." removed and nothing else removed, and the empty string when the
\* URL cannot be parsed.
C3_GetDomainStripsOnePrefix ==
    d_pc = "ret" =>
        d_out = IF UrlparseRaises(d_url) THEN EmptyStr ELSE NormalizedHost(d_url)

----------------------------------------------------------------------------
(* Text Extractor.  The markup is the stream of events HTMLParser hands to *)
(* the handlers: start-tags, end-tags and text data.                       *)

StartTag(tag) == [type |-> "start", tag |-> tag, data |-> EmptyStr]
EndTag(tag) == [type |-> "end", tag |-> tag, data |-> EmptyStr]
Data(s) == [type |-> "data", tag |-> EmptyStr, data |-> s]

T_script == <<"s","c","r","i","p","t">>
T_style == <<"s","t","y","l","e">>
T_nav == <<"n","a","v">>
T_footer == <<"f","o","o","t","e","r">>
T_header == <<"h","e","a","d","e","r">>
T_aside == <<"a","s","i","d","e">>
T_noscript == <<"n","o","s","c","r","i","p","t">>
T_article == <<"a","r","t","i","c","l","e">>
T_p == <<"p">>
T_br == <<"b","r">>
T_div == <<"d","i","v">>
T_h1 == <<"h","1">>
T_h2 == <<"h","2">>
T_h3 == <<"h","3">>
T_h4 == <<"h","4">>
T_li == <<"l","i">>
T_span == <<"s","p","a","n">>

skip_tags == {T_script, T_style, T_nav, T_footer, T_header, T_aside, T_noscript}

block_tags == {T_p, T_br, T_div, T_h1, T_h2, T_h3, T_h4, T_li}

\* TextExtractor.__init__
NewExtractor == [text |-> EmptyStr, skip |-> FALSE]

handle_starttag(st, tag) ==
    IF tag \in skip_tags THEN [st EXCEPT !.skip = TRUE] ELSE st

\* handle_endtag appending the newline only while the flag is clear
handle_endtag_NewlineWhenClear(st, tag) ==
    LET s1 == IF tag \in skip_tags THEN [st EXCEPT !.skip = FALSE] ELSE st
    IN  IF tag \in block_tags /\ ~st.skip
        THEN [s1 EXCEPT !.text = s1.text \o <<"\n">>]
        ELSE s1

handle_endtag(st, tag) ==
    LET s1 == IF tag \in skip_tags THEN [st EXCEPT !.skip = FALSE] ELSE st
    IN  IF tag \in block_tags
        THEN [s1 EXCEPT !.text = s1.text \o <<"\n">>]
        ELSE s1

\* handle_data appending whatever the flag says
handle_data_IgnoresSkip(st, data) == [st EXCEPT !.text = st.text \o data]

handle_data(st, data) ==
    IF ~st.skip THEN [st EXCEPT !.text = st.text \o data] ELSE st

HandleEvent(st, ev) ==
    CASE ev.type = "start" -> handle_starttag(st, ev.tag)
      [] ev.type = "end" -> handle_endtag(st, ev.tag)
      [] OTHER -> handle_data(st, ev.data)

\* HTMLParser.feed: the handlers run in document order
RECURSIVE Feed(_, _)
Feed(st, events) ==
    IF events = << >> THEN st
    ELSE Feed(HandleEvent(st, Head(events)), Tail(events))

Blank == {" ", "\t"}

\* re.sub(r"[ \t]+", " ", raw)
CollapseBlanks(s) ==
    LET single == [i \in 1..Len(s) |-> IF s[i] \in Blank THEN " " ELSE s[i]]
        first == [i \in 1..Len(s) |->
                     i = 1 \/ ~(s[i] \in Blank /\ s[i - 1] \in Blank)]
    IN  KeepWhere(single, first)

\* re.sub(r"\n{3,}", "\n\n", raw): of a run of newlines the first two stay
CollapseNewlines(s) ==
    LET within == [i \in 1..Len(s) |->
                      i <= 2 \/ ~(s[i] = "\n" /\ s[i - 1] = "\n" /\ s[i - 2] = "\n")]
    IN  KeepWhere(s, within)

WhiteSpace == {" ", "\t", "\n", "\r", "\f"}

RStripChars(s, chars) ==
    LET rest == {i \in 1..Len(s) : s[i] \notin chars}
    IN  IF rest = {} THEN EmptyStr ELSE SubSeq(s, 1, Max(rest))

\* str.strip()
Strip(s) == RStripChars(LStripChars(s, WhiteSpace), WhiteSpace)

\* TextExtractor.get_text
get_text(st) == Strip(CollapseNewlines(CollapseBlanks(st.text)))

IsStart(ev, tag) == ev.type = "start" /\ ev.tag = tag
IsEnd(ev, tag) == ev.type = "end" /\ ev.tag = tag

\* re.search(r"<article[^>]*>(.*?)</article>", html): the content of the
\* first <article> that is followed by an </article>, up to the nearest one
ArticleFragment(events) ==
    LET n == Len(events)
        opens == {i \in 1..n : IsStart(events[i], T_article)
                               /\ \E j \in (i + 1)..n : IsEnd(events[j], T_article)}
    IN  IF opens = {} THEN events
        ELSE LET i == CHOOSE k \in opens : \A m \in opens : k <= m
                 j == CHOOSE k \in (i + 1)..n :
                          /\ IsEnd(events[k], T_article)
                          /\ \A m \in (i + 1)..n : IsEnd(events[m], T_article) => k <= m
             IN  SubSeq(events, i + 1, j - 1)

extract_readable_text(events) == get_text(Feed(NewExtractor, ArticleFragment(events)))

\* the decoded text of a body: the markup its events were read from
RECURSIVE Markup(_)
Markup(events) ==
    IF events = << >> THEN EmptyStr
    ELSE LET ev == Head(events)
         IN  (CASE ev.type = "start" -> <<"<">> \o ev.tag \o <<">">>
                [] ev.type = "end" -> <<"<", "/">> \o ev.tag \o <<">">>
                [] OTHER -> ev.data)
             \o Markup(Tail(events))

----------------------------------------------------------------------------
(* One call of extract_readable_text on a document put together from at    *)
(* most MaxParts parts: elements, single tags and bare text.               *)

MaxParts == 4

W_Hello == <<"H","e","l","l","o">>
W_World == <<"W","o","r","l","d">>
W_ignored == <<"i","g","n","o","r","e","d">>
W_blanks == <<"a"," "," ","b"," ">>

Parts ==
    {<<StartTag(T_p), Data(W_Hello), EndTag(T_p)>>,
     <<StartTag(T_div), Data(W_World), EndTag(T_div)>>,
     <<StartTag(T_script), Data(W_ignored), EndTag(T_script)>>,
     <<StartTag(T_article)>>,
     <<EndTag(T_article)>>,
     <<Data(W_blanks)>>,
     <<StartTag(T_aside)>>,
     <<EndTag(T_aside)>>}

RECURSIVE Concat(_)
Concat(parts) ==
    IF parts = << >> THEN << >> ELSE Head(parts) \o Concat(Tail(parts))

\* "<article><p>Hello</p><script>ignored</script><p>World</p></article>"
RoundTripDocument ==
    <<StartTag(T_article), StartTag(T_p), Data(W_Hello), EndTag(T_p),
      StartTag(T_script), Data(W_ignored), EndTag(T_script),
      StartTag(T_p), Data(W_World), EndTag(T_p), EndTag(T_article)>>

\* "<aside><article><p>Hello</p></article></aside>"
AsideDocument ==
    <<StartTag(T_aside), StartTag(T_article), StartTag(T_p), Data(W_Hello),
      EndTag(T_p), EndTag(T_article), EndTag(T_aside)>>

Documents ==
    {Concat(ps) : ps \in UNION {[1..n -> Parts] : n \in 0..MaxParts}}
    \cup {RoundTripDocument, AsideDocument}

InitReadable ==
    /\ x_pc = "call"
    /\ x_doc \in Documents
    /\ x_st = NewExtractor
    /\ x_out = EmptyStr
    /\ IdleDomain
    /\ IdleFetch
    /\ IdleEnrich
    /\ IdleMain

\* lines 88-96
ExtractReadableText ==
    /\ x_pc = "call"
    /\ x_st' = Feed(NewExtractor, ArticleFragment(x_doc))
    /\ x_out' = extract_readable_text(x_doc)
    /\ x_pc' = "ret"
    /\ UNCHANGED <<x_doc, domainVars, fetchVars, enrichVars, mainVars>>

NextReadable == ExtractReadableText

SpecReadable == InitReadable /\ [][NextReadable]_vars

----------------------------------------------------------------------------
(* The handlers of one TextExtractor called with any sequence of events;   *)
(* x_doc records the events handled so far.                                *)

MaxEvents == 5

ExtractorTags == {T_script, T_aside, T_p, T_span}

ExtractorData == {<<"a">>}

InitExtractor ==
    /\ x_pc = "feed"
    /\ x_doc = << >>
    /\ x_st = NewExtractor
    /\ x_out = EmptyStr
    /\ IdleDomain
    /\ IdleFetch
    /\ IdleEnrich
    /\ IdleMain

\* lines 67-69
HandleStartTag ==
    /\ x_pc = "feed"
    /\ Len(x_doc) < MaxEvents
    /\ \E tag \in ExtractorTags :
          /\ x_st' = handle_starttag(x_st, tag)
          /\ x_doc' = Append(x_doc, StartTag(tag))
    /\ UNCHANGED <<x_pc, x_out, domainVars, fetchVars, enrichVars, mainVars>>

\* lines 71-75
HandleEndTag ==
    /\ x_pc = "feed"
    /\ Len(x_doc) < MaxEvents
    /\ \E tag \in ExtractorTags :
          /\ x_st' = handle_endtag(x_st, tag)
          /\ x_doc' = Append(x_doc, EndTag(tag))
    /\ UNCHANGED <<x_pc, x_out, domainVars, fetchVars, enrichVars, mainVars>>

\* lines 77-79
HandleData ==
    /\ x_pc = "feed"
    /\ Len(x_doc) < MaxEvents
    /\ \E data \in ExtractorData :
          /\ x_st' = handle_data(x_st, data)
          /\ x_doc' = Append(x_doc, Data(data))
    /\ UNCHANGED <<x_pc, x_out, domainVars, fetchVars, enrichVars, mainVars>>

NextExtractor == HandleStartTag \/ HandleEndTag \/ HandleData

SpecExtractor == InitExtractor /\ [][NextExtractor]_vars
----------------------------------------------------------------------------
(* Content Fetcher *)

DEFAULT_MAX_CHARS == 2000

\* the error field of an outcome: None or a string
NoError == [none |-> TRUE, val |-> EmptyStr]
ErrorStr(s) == [none |-> FALSE, val |-> s]

\* sub in s
Substring(s, sub) ==
    \E i \in 1..(Len(s) - Len(sub) + 1) : SubSeq(s, i, i + Len(sub) - 1) = sub

DigitSet == {Digits[i] : i \in 1..10}

\* str.isdigit()
IsDigitStr(s) == s # EmptyStr /\ \A i \in 1..Len(s) : s[i] \in DigitSet

DigitValue(c) == (CHOOSE i \in 1..10 : Digits[i] = c) - 1

\* int(s) for a string of digits
RECURSIVE StrToInt(_)
StrToInt(s) ==
    IF s = EmptyStr THEN 0
    ELSE 10 * StrToInt(SubSeq(s, 1, Len(s) - 1)) + DigitValue(s[Len(s)])

\* str(n) for n >= 0
RECURSIVE IntToStr(_)
IntToStr(n) ==
    IF n < 10 THEN <<Digits[n + 1]>>
    ELSE IntToStr(n \div 10) \o <<Digits[(n % 10) + 1]>>

SkippedOutcome(domain) ==
    [text |-> EmptyStr, method |-> "skipped", tokens |-> 0,
     error |-> ErrorStr(<<"d","o","m","a","i","n"," ">> \o domain \o <<" ","i","n"," ","s","k","i","p"," ","l","i","s","t">>)]

\* lines 118-120: the structured-markdown path
MarkdownOutcome(text, token_header, maxChars) ==
    [text |-> PySlicePrefix(text, maxChars), method |-> "cf-markdown",
     tokens |-> IF IsDigitStr(token_header) THEN StrToInt(token_header)
                ELSE Len(text) \div 4,
     error |-> NoError]

\* HtmlOutcome without the blanking of a too-short extraction
HtmlOutcome_KeepsShortText(extracted, maxChars) ==
    IF Len(extracted) < 100
    THEN [text |-> PySlicePrefix(extracted, maxChars), method |-> "html-too-short",
          tokens |-> 0, error |-> ErrorStr(<<"e","x","t","r","a","c","t","e","d"," ","t","e","x","t"," ","t","o","o"," ","s","h","o","r","t">>)]
    ELSE [text |-> PySlicePrefix(extracted, maxChars), method |-> "html-extract",
          tokens |-> Len(PySlicePrefix(extracted, maxChars)) \div 4,
          error |-> NoError]

\* HtmlOutcome estimating the tokens from the untruncated extraction
HtmlOutcome_TokensUntruncated(extracted, maxChars) ==
    IF Len(extracted) < 100
    THEN [text |-> EmptyStr, method |-> "html-too-short", tokens |-> 0,
          error |-> ErrorStr(<<"e","x","t","r","a","c","t","e","d"," ","t","e","x","t"," ","t","o","o"," ","s","h","o","r","t">>)]
    ELSE [text |-> PySlicePrefix(extracted, maxChars), method |-> "html-extract",
          tokens |-> Len(extracted) \div 4,
          error |-> NoError]

\* lines 122-126: the extraction path
HtmlOutcome(extracted, maxChars) ==
    IF Len(extracted) < 100
    THEN [text |-> EmptyStr, method |-> "html-too-short", tokens |-> 0,
          error |-> ErrorStr(<<"e","x","t","r","a","c","t","e","d"," ","t","e","x","t"," ","t","o","o"," ","s","h","o","r","t">>)]
    ELSE [text |-> PySlicePrefix(extracted, maxChars), method |-> "html-extract",
          tokens |-> Len(PySlicePrefix(extracted, maxChars)) \div 4,
          error |-> NoError]

ErrorOutcome(description) ==
    [text |-> EmptyStr, method |-> "error", tokens |-> 0,
     error |-> ErrorStr(description)]

\* line 129
HTTPErrorDescription(code) == <<"H","T","T","P"," ">> \o IntToStr(code)

\* line 131
URLErrorDescription(reason) == <<"U","R","L"," ","e","r","r","o","r",":"," ">> \o reason

\* line 133
ExceptionDescription(msg) == PySlicePrefix(msg, 100)

GzipErrorMsg == <<"C","o","m","p","r","e","s","s","e","d"," ","f","i","l","e"," ","e","n","d","e","d"," ","b","e","f","o","r","e"," ","t","h","e"," ","e","n","d","-","o","f","-","s","t","r","e","a","m"," ","m","a","r","k","e","r"," ","w","a","s"," ","r","e","a","c","h","e","d">>

\* lines 104-133: what the request step returns for a response of the network
Respond(resp, maxChars) ==
    CASE resp.kind = "HTTPError" -> ErrorOutcome(HTTPErrorDescription(resp.code))
      [] resp.kind = "URLError" -> ErrorOutcome(URLErrorDescription(resp.msg))
      [] resp.kind = "Exception" -> ErrorOutcome(ExceptionDescription(resp.msg))
      [] OTHER ->
            IF resp.gzip = "corrupt"
            THEN ErrorOutcome(ExceptionDescription(GzipErrorMsg))
            ELSE IF Substring(resp.content_type, <<"t","e","x","t","/","m","a","r","k","d","o","w","n">>)
                 THEN MarkdownOutcome(Markup(resp.body), resp.token_header, maxChars)
                 ELSE HtmlOutcome(extract_readable_text(resp.body), maxChars)

\* lines 100-102
InSkipList(url) == get_domain(url) \in SKIP_DOMAINS

fetch_full_text(url, maxChars, resp) ==
    IF InSkipList(url)
    THEN SkippedOutcome(get_domain(url))
    ELSE Respond(resp, maxChars)

----------------------------------------------------------------------------
(* One call of fetch_full_text, against every answer of the network. *)

Https == <<"h","t","t","p","s",":","/","/">>

FetchUrls ==
    {Https \o p \o h \o <<"/","a">> : p \in {EmptyStr, WwwDot}, h \in SKIP_DOMAINS}
    \cup {Https \o <<"e","x","a","m","p","l","e",".","c","o","m","/","a">>}

Budgets == {-1, 0, 1, 3, 4, 50, DEFAULT_MAX_CHARS}

ContentTypes == {<<"t","e","x","t","/","m","a","r","k","d","o","w","n",";"," ","c","h","a","r","s","e","t","=","u","t","f","-","8">>, <<"t","e","x","t","/","h","t","m","l">>, EmptyStr}

TokenHeaders == {EmptyStr, <<"0">>, <<"1","2">>, <<"a","b","c">>}

Bodies ==
    {<< >>,
     <<Data(<<"#"," ","T","i","t","l","e","\n","B","o","d","y">>)>>,
     <<Data(<<"a","b","c">>)>>,
     <<StartTag(T_p), Data(Rep(<<"a">>, 99)), EndTag(T_p)>>,
     <<StartTag(T_p), Data(Rep(<<"a">>, 100)), EndTag(T_p)>>,
     <<StartTag(T_div), Data(Rep(<<"a", " ", " ">>, 75)), EndTag(T_div)>>,
     <<StartTag(T_script), Data(Rep(<<"a">>, 120)), EndTag(T_script)>>,
     <<StartTag(T_article), StartTag(T_p), Data(<<"H","e","l","l","o">>), EndTag(T_p),
       StartTag(T_script), Data(<<"i","g","n","o","r","e","d">>), EndTag(T_script),
       StartTag(T_p), Data(<<"W","o","r","l","d">>), EndTag(T_p), EndTag(T_article)>>}

OkResponses ==
    {[kind |-> "ok", code |-> 200, msg |-> EmptyStr, gzip |-> g,
      content_type |-> ct, token_header |-> th, body |-> b] :
        g \in {"identity", "gzip"}, ct \in ContentTypes,
        th \in TokenHeaders, b \in Bodies}

Failure(kind, code, msg) ==
    [kind |-> kind, code |-> code, msg |-> msg, gzip |-> "identity",
     content_type |-> EmptyStr, token_header |-> EmptyStr, body |-> << >>]

SSLReason == <<"[","S","S","L",":"," ","C","E","R","T","I","F","I","C","A","T","E","_","V","E","R","I","F","Y","_","F","A","I","L","E","D","]"," ","c","e","r","t","i","f","i","c","a","t","e"," ","v","e","r","i","f","y"," ","f","a","i","l","e","d",":"," ","u","n","a","b","l","e"," ","t","o"," ","g","e","t"," ","l","o","c","a","l"," ","i","s","s","u","e","r"," ","c","e","r","t","i","f","i","c","a","t","e"," ","(","_","s","s","l",".","c",":","1","0","0","7",")">>

FailResponses ==
    {Failure("HTTPError", 404, EmptyStr),
     Failure("HTTPError", 503, EmptyStr),
     Failure("URLError", 0, <<"t","i","m","e","d"," ","o","u","t">>),
     Failure("URLError", 0, SSLReason),
     Failure("Exception", 0, <<"T","h","e"," ","r","e","a","d"," ","o","p","e","r","a","t","i","o","n"," ","t","i","m","e","d"," ","o","u","t">>),
     Failure("Exception", 0, Rep(<<"e">>, 150)),
     [kind |-> "ok", code |-> 200, msg |-> EmptyStr, gzip |-> "corrupt",
      content_type |-> <<"t","e","x","t","/","h","t","m","l">>, token_header |-> EmptyStr, body |-> << >>]}

Responses == OkResponses \cup FailResponses

\* the request raised instead of delivering a body
Fails(resp) == resp.kind # "ok" \/ resp.gzip = "corrupt"

InitFetch ==
    /\ f_pc = "call"
    /\ f_url \in FetchUrls
    /\ f_budget \in Budgets
    /\ f_resp = NoResponse
    /\ f_out = NoOutcome
    /\ f_requests = 0
    /\ IdleDomain
    /\ IdleEnrich
    /\ IdleExtract
    /\ IdleMain

\* lines 100-102: classify the domain, return at once for a denied one
FetchClassify ==
    /\ f_pc = "call"
    /\ IF InSkipList(f_url)
       THEN /\ f_out' = fetch_full_text(f_url, f_budget, NoResponse)
            /\ f_pc' = "ret"
       ELSE /\ f_pc' = "request"
            /\ UNCHANGED f_out
    /\ UNCHANGED <<f_url, f_budget, f_resp, f_requests, domainVars, enrichVars, extractVars, mainVars>>

\* lines 104-133: the single request and what is made of its answer
FetchRequest ==
    /\ f_pc = "request"
    /\ \E resp \in Responses :
        /\ f_resp' = resp
        /\ f_out' = fetch_full_text(f_url, f_budget, resp)
    /\ f_requests' = f_requests + 1
    /\ f_pc' = "ret"
    /\ UNCHANGED <<f_url, f_budget, domainVars, enrichVars, extractVars, mainVars>>

NextFetch == FetchClassify \/ FetchRequest

SpecFetch == InitFetch /\ [][NextFetch]_vars

EmptyMethods == {"skipped", "html-too-short", "error"}

\* C2: a URL whose host is on the deny-list is answered method=skipped with
\* empty text, and the request step is never reached for it.
C2_DenyListNeverRequested ==
    Lower(Netloc(f_url)) \in SKIP_DOMAINS =>
        /\ f_pc # "request"
        /\ f_requests = 0
        /\ f_pc = "ret" => (f_out.method = "skipped" /\ f_out.text = EmptyStr)

\* C4 as stated: the text of an outcome is empty exactly when its method is
\* skipped, html-too-short or error.
C4_TextEmptyIffEmptyMethod ==
    f_pc = "ret" => (f_out.text = EmptyStr <=> f_out.method \in EmptyMethods)

\* C4: skipped, html-too-short and error outcomes carry empty text; an
\* html-extract outcome carries text when the budget is at least 1, and a
\* cf-markdown outcome does when moreover the decoded body is not empty.
C4_EmptyMethodsHaveNoText ==
    f_pc = "ret" =>
        /\ f_out.method \in EmptyMethods => f_out.text = EmptyStr
        /\ (f_out.method = "html-extract" /\ f_budget >= 1) => f_out.text # EmptyStr
        /\ (f_out.method = "cf-markdown" /\ f_budget >= 1
                /\ Markup(f_resp.body) # EmptyStr) => f_out.text # EmptyStr

C4_Witness ==
    /\ f_pc = "ret"
    /\ f_out.method = "html-extract"
    /\ f_budget >= 1
    /\ f_budget < Len(extract_readable_text(f_resp.body))
    /\ Len(f_out.text) = f_budget

\* C5 as stated: tokens is 0 exactly when the text is empty, but for a
\* cf-markdown outcome with empty text and a declared count; every outcome
\* with text has tokens > 0.
C5_TokensZeroIffTextEmpty ==
    f_pc = "ret" =>
        /\ \/ (f_out.tokens = 0 <=> f_out.text = EmptyStr)
           \/ /\ f_out.method = "cf-markdown"
              /\ f_out.text = EmptyStr
              /\ IsDigitStr(f_resp.token_header)
        /\ f_out.text # EmptyStr => f_out.tokens > 0

\* C5: skipped, html-too-short and error outcomes have empty text and
\* tokens = 0; an html-extract outcome has tokens = (length of its truncated
\* text) div 4; a cf-markdown outcome has the declared count when it is
\* numeric and otherwise (length of the decoded body) div 4.
C5_TokensFollowPath ==
    f_pc = "ret" =>
        /\ f_out.method \in EmptyMethods =>
              (f_out.text = EmptyStr /\ f_out.tokens = 0)
        /\ f_out.method = "html-extract" =>
              f_out.tokens = Len(f_out.text) \div 4
        /\ f_out.method = "cf-markdown" =>
              f_out.tokens = IF IsDigitStr(f_resp.token_header)
                             THEN StrToInt(f_resp.token_header)
                             ELSE Len(Markup(f_resp.body)) \div 4

C5_Witness ==
    /\ f_pc = "ret"
    /\ f_out.method = "html-extract"
    /\ Len(f_out.text) = 50
    /\ f_out.tokens = 12

\* C6: every failure of the request is returned as method=error with empty
\* text, tokens = 0 and an error description of at most 100 characters.
C6_FailuresAreBoundedErrors ==
    (f_pc = "ret" /\ f_resp # NoResponse /\ Fails(f_resp)) =>
        /\ f_out.method = "error"
        /\ f_out.text = EmptyStr
        /\ f_out.tokens = 0
        /\ ~f_out.error.none
        /\ Len(f_out.error.val) <= 100

----------------------------------------------------------------------------
(* Batch Selector and Enrichment Orchestrator: enrich_articles.            *)
(* An article is a mapping; a key that may be absent is a record           *)
(* [has, val].                                                             *)

MAX_WORKERS == 5
DEFAULT_MIN_SCORE == 10
DEFAULT_MAX_ARTICLES == 15

AbsentStr == [has |-> FALSE, val |-> EmptyStr]
AbsentInt == [has |-> FALSE, val |-> 0]
AbsentMethod == [has |-> FALSE, val |-> "none"]
Present(v) == [has |-> TRUE, val |-> v]

Article(link, score, full_text) ==
    [link |-> link, quality_score |-> score, full_text |-> full_text,
     full_text_method |-> AbsentMethod, full_text_tokens |-> AbsentInt]

\* the truth value Python gives a.get(key) for a string key
Truthy(field) == field.has /\ field.val # EmptyStr

\* a.get("quality_score", 0)
Score(a) == IF a.quality_score.has THEN a.quality_score.val ELSE 0

\* a.get("link", "")
LinkOrEmpty(a) == IF a.link.has THEN a.link.val ELSE EmptyStr

\* IsEligible without the test of the link
IsEligible_NoLinkCheck(a, minScore) ==
    /\ ~Truthy(a.full_text)
    /\ \/ Score(a) >= minScore
       \/ (get_domain(LinkOrEmpty(a)) \in blog_domains /\ Score(a) >= 3)

\* IsEligible without the test of an existing full_text
IsEligible_IgnoresFullText(a, minScore) ==
    /\ Truthy(a.link)
    /\ \/ Score(a) >= minScore
       \/ (get_domain(LinkOrEmpty(a)) \in blog_domains /\ Score(a) >= 3)

\* lines 148-153: the test of the eligibility loop
IsEligible(a, minScore) ==
    /\ ~(Truthy(a.full_text) \/ ~Truthy(a.link))
    /\ \/ Score(a) >= minScore
       \/ (get_domain(LinkOrEmpty(a)) \in blog_domains /\ Score(a) >= 3)

\* lines 146-154: the positions of the eligible articles, in order
Eligible(arts, minScore) ==
    LET all == [i \in 1..Len(arts) |-> i]
        ok == [i \in 1..Len(arts) |-> IsEligible(arts[i], minScore)]
    IN  KeepWhere(all, ok)

\* Dedup keeping the last occurrence of every link
Dedup_KeepsLast(arts, elig) ==
    LET lastOfLink == [k \in 1..Len(elig) |->
            \A j \in (k + 1)..Len(elig) :
                arts[elig[j]].link.val # arts[elig[k]].link.val]
    IN  KeepWhere(elig, lastOfLink)

\* lines 156-162: the first occurrence of every link
Dedup(arts, elig) ==
    LET firstOfLink == [k \in 1..Len(elig) |->
            \A j \in 1..(k - 1) : arts[elig[j]].link.val # arts[elig[k]].link.val]
    IN  KeepWhere(elig, firstOfLink)

\* SortByScore putting the later of two equal scores first
SortByScore_TiesReversed(arts, seq) ==
    LET n == Len(seq)
        before(p, q) ==
            \/ Score(arts[seq[p]]) > Score(arts[seq[q]])
            \/ (Score(arts[seq[p]]) = Score(arts[seq[q]]) /\ p > q)
        rank(q) == 1 + Cardinality({p \in 1..n : before(p, q)})
    IN  [k \in 1..n |-> seq[CHOOSE q \in 1..n : rank(q) = k]]

\* line 164: list.sort is stable, the key is -quality_score
SortByScore(arts, seq) ==
    LET n == Len(seq)
        before(p, q) ==
            \/ Score(arts[seq[p]]) > Score(arts[seq[q]])
            \/ (Score(arts[seq[p]]) = Score(arts[seq[q]]) /\ p < q)
        rank(q) == 1 + Cardinality({p \in 1..n : before(p, q)})
    IN  [k \in 1..n |-> seq[CHOOSE q \in 1..n : rank(q) = k]]

\* lines 146-164
Unique(arts, minScore) == SortByScore(arts, Dedup(arts, Eligible(arts, minScore)))

\* Truncate cutting one entry too late
Truncate_OffByOne(seq, maxArticles) == PySlicePrefix(seq, maxArticles + 1)

\* line 165
Truncate(seq, maxArticles) == PySlicePrefix(seq, maxArticles)

WorkList(arts, minScore, maxArticles) == Truncate(Unique(arts, minScore), maxArticles)

\* dict assignment results[url] = result
DictSet(d, key, value) ==
    [k \in DOMAIN d \cup {key} |-> IF k = key THEN value ELSE d[k]]

\* Applied without the test of the outcome's text
Applied_IgnoresEmptyText(a, res) ==
    LET url == LinkOrEmpty(a)
    IN  IF url \in DOMAIN res
        THEN [a EXCEPT !.full_text = Present(res[url].text),
                       !.full_text_method = Present(res[url].method),
                       !.full_text_tokens = Present(res[url].tokens)]
        ELSE a

\* lines 191-197: what the application loop makes of one article
Applied(a, res) ==
    LET url == LinkOrEmpty(a)
    IN  IF url \in DOMAIN res /\ res[url].text # EmptyStr
        THEN [a EXCEPT !.full_text = Present(res[url].text),
                       !.full_text_method = Present(res[url].method),
                       !.full_text_tokens = Present(res[url].tokens)]
        ELSE a

----------------------------------------------------------------------------
(* Calls of enrich_articles on small candidate collections. *)

NArticles == 3

L_plain == <<"h","t","t","p","s",":","/","/","e","x","a","m","p","l","e",".","c","o","m","/","a">>
L_blog == <<"h","t","t","p","s",":","/","/","s","i","m","o","n","w","i","l","l","i","s","o","n",".","n","e","t","/","a">>
L_skip == <<"h","t","t","p","s",":","/","/","w","w","w",".","r","e","d","d","i","t",".","c","o","m","/","a">>
OldText == <<"o","l","d">>

ArticlePool ==
    {Article(Present(L_plain), Present(12), AbsentStr),
     Article(Present(L_blog), Present(3), AbsentStr),
     Article(Present(L_skip), Present(12), AbsentStr),
     Article(AbsentStr, Present(15), AbsentStr),
     Article(Present(EmptyStr), Present(12), AbsentStr),
     Article(Present(L_plain), AbsentInt, Present(EmptyStr)),
     Article(Present(L_blog), Present(10), Present(OldText))}

MinScoreSettings == {0, DEFAULT_MIN_SCORE}

MaxArticlesSettings == {-1, 0, 1, 2}

MarkdownResponse ==
    [kind |-> "ok", code |-> 200, msg |-> EmptyStr, gzip |-> "identity",
     content_type |-> <<"t","e","x","t","/","m","a","r","k","d","o","w","n">>, token_header |-> <<"7">>,
     body |-> <<Data(<<"#"," ","T","i","t","l","e","\n","B","o","d","y">>)>>]

LongHtmlResponse ==
    [kind |-> "ok", code |-> 200, msg |-> EmptyStr, gzip |-> "gzip",
     content_type |-> <<"t","e","x","t","/","h","t","m","l">>, token_header |-> EmptyStr,
     body |-> <<StartTag(T_p), Data(Rep(<<"a">>, 100)), EndTag(T_p)>>]

EnrichResponses ==
    {MarkdownResponse, LongHtmlResponse,
     Failure("HTTPError", 404, EmptyStr)}

ArticleSeqs == [1..NArticles -> ArticlePool]

Init ==
    /\ pc = "start"
    /\ articles \in ArticleSeqs
    /\ articles0 = articles
    /\ min_score \in MinScoreSettings
    /\ max_articles \in MaxArticlesSettings
    /\ max_chars = DEFAULT_MAX_CHARS
    /\ unique = << >> /\ to_fetch = << >> /\ futures = << >>
    /\ results = << >>
    /\ attempted = 0 /\ success = 0 /\ cf_count = 0
    /\ ret = << >>
    /\ IdleDomain
    /\ IdleFetch
    /\ IdleExtract
    /\ IdleMain

inputVars == <<articles0, min_score, max_articles, max_chars>>

\* lines 146-174: build the WorkList; return (0, 0, 0) when it is empty
Select ==
    /\ pc = "start"
    /\ unique' = Unique(articles, min_score)
    /\ to_fetch' = Truncate(unique', max_articles)
    /\ attempted' = 0 /\ success' = 0 /\ cf_count' = 0
    /\ results' = << >>
    /\ IF to_fetch' = << >>
       THEN pc' = "done" /\ ret' = <<0, 0, 0>>
       ELSE pc' = "submit" /\ ret' = ret
    /\ UNCHANGED <<articles, futures, inputVars, domainVars, fetchVars,
                   extractVars, mainVars>>

\* lines 176-177: one future per WorkList entry, queued in WorkList order
Submit ==
    /\ pc = "submit"
    /\ futures' = [k \in 1..Len(to_fetch) |->
                      [url |-> articles[to_fetch[k]].link.val,
                       state |-> "queued", result |-> NoOutcome]]
    /\ pc' = "collect"
    /\ UNCHANGED <<articles, unique, to_fetch, results, attempted, success,
                   cf_count, ret, inputVars, domainVars, fetchVars,
                   extractVars, mainVars>>

Running == {k \in 1..Len(futures) : futures[k].state = "running"}

\* WorkerStart with a thread for every work item
WorkerStart_Uncapped(k) ==
    /\ futures[k].state = "queued"
    /\ \A j \in 1..(k - 1) : futures[j].state # "queued"
    /\ futures' = [futures EXCEPT ![k].state = "running"]
    /\ UNCHANGED <<pc, articles, unique, to_fetch, results, attempted, success,
                   cf_count, ret, inputVars, domainVars, fetchVars,
                   extractVars, mainVars>>

\* a pool thread takes the oldest queued work item
WorkerStart(k) ==
    /\ futures[k].state = "queued"
    /\ \A j \in 1..(k - 1) : futures[j].state # "queued"
    /\ Cardinality(Running) < MAX_WORKERS
    /\ futures' = [futures EXCEPT ![k].state = "running"]
    /\ UNCHANGED <<pc, articles, unique, to_fetch, results, attempted, success,
                   cf_count, ret, inputVars, domainVars, fetchVars,
                   extractVars, mainVars>>

\* the thread runs fetch_full_text to its return and completes the future
WorkerFinish(k) ==
    /\ futures[k].state = "running"
    /\ \E resp \in EnrichResponses :
          futures' = [futures EXCEPT
                         ![k].state = "done",
                         ![k].result = fetch_full_text(futures[k].url, max_chars, resp)]
    /\ UNCHANGED <<pc, articles, unique, to_fetch, results, attempted, success,
                   cf_count, ret, inputVars, domainVars, fetchVars,
                   extractVars, mainVars>>

\* Collect taking the success count from the attempts so far
Collect_SuccessFromAttempted(k) ==
    /\ pc = "collect"
    /\ futures[k].state = "done"
    /\ futures' = [futures EXCEPT ![k].state = "collected"]
    /\ attempted' = attempted + 1
    /\ results' = DictSet(results, futures[k].url, futures[k].result)
    /\ success' = IF futures[k].result.text # EmptyStr THEN attempted' ELSE success
    /\ cf_count' = IF /\ futures[k].result.text # EmptyStr
                      /\ futures[k].result.method = "cf-markdown"
                   THEN cf_count + 1 ELSE cf_count
    /\ UNCHANGED <<pc, articles, unique, to_fetch, ret, inputVars,
                   domainVars, fetchVars,
                   extractVars, mainVars>>

\* Collect counting an attempt only for an outcome with text
Collect_AttemptsOnlySuccesses(k) ==
    /\ pc = "collect"
    /\ futures[k].state = "done"
    /\ futures' = [futures EXCEPT ![k].state = "collected"]
    /\ attempted' = IF futures[k].result.text # EmptyStr
                    THEN attempted + 1 ELSE attempted
    /\ results' = DictSet(results, futures[k].url, futures[k].result)
    /\ success' = IF futures[k].result.text # EmptyStr THEN success + 1 ELSE success
    /\ cf_count' = IF /\ futures[k].result.text # EmptyStr
                      /\ futures[k].result.method = "cf-markdown"
                   THEN cf_count + 1 ELSE cf_count
    /\ UNCHANGED <<pc, articles, unique, to_fetch, ret, inputVars,
                   domainVars, fetchVars,
                   extractVars, mainVars>>

\* Collect counting every cf-markdown outcome, with or without text
Collect_CountsEveryMarkdown(k) ==
    /\ pc = "collect"
    /\ futures[k].state = "done"
    /\ futures' = [futures EXCEPT ![k].state = "collected"]
    /\ attempted' = attempted + 1
    /\ results' = DictSet(results, futures[k].url, futures[k].result)
    /\ success' = IF futures[k].result.text # EmptyStr THEN success + 1 ELSE success
    /\ cf_count' = IF futures[k].result.method = "cf-markdown"
                   THEN cf_count + 1 ELSE cf_count
    /\ UNCHANGED <<pc, articles, unique, to_fetch, ret, inputVars,
                   domainVars, fetchVars,
                   extractVars, mainVars>>

\* lines 178-189: as_completed yields a completed future to the coordinator
Collect(k) ==
    /\ pc = "collect"
    /\ futures[k].state = "done"
    /\ futures' = [futures EXCEPT ![k].state = "collected"]
    /\ attempted' = attempted + 1
    /\ results' = DictSet(results, futures[k].url, futures[k].result)
    /\ success' = IF futures[k].result.text # EmptyStr THEN success + 1 ELSE success
    /\ cf_count' = IF /\ futures[k].result.text # EmptyStr
                      /\ futures[k].result.method = "cf-markdown"
                   THEN cf_count + 1 ELSE cf_count
    /\ UNCHANGED <<pc, articles, unique, to_fetch, ret, inputVars,
                   domainVars, fetchVars,
                   extractVars, mainVars>>

\* Apply as soon as one future has been collected
Apply_BeforeAllCollected ==
    /\ pc = "collect"
    /\ \E k \in 1..Len(futures) : futures[k].state = "collected"
    /\ articles' = [i \in 1..Len(articles) |-> Applied(articles[i], results)]
    /\ ret' = <<attempted, success, cf_count>>
    /\ pc' = "done"
    /\ UNCHANGED <<unique, to_fetch, futures, results, attempted, success,
                   cf_count, inputVars, domainVars, fetchVars,
                   extractVars, mainVars>>

\* lines 191-200: every future has been collected; write the outcomes to the
\* articles in collection order and return the counters
Apply ==
    /\ pc = "collect"
    /\ \A k \in 1..Len(futures) : futures[k].state = "collected"
    /\ articles' = [i \in 1..Len(articles) |-> Applied(articles[i], results)]
    /\ ret' = <<attempted, success, cf_count>>
    /\ pc' = "done"
    /\ UNCHANGED <<unique, to_fetch, futures, results, attempted, success,
                   cf_count, inputVars, domainVars, fetchVars,
                   extractVars, mainVars>>

\* enrich_articles is called again, with the same parameters, on the
\* collection the call before has left
Rerun ==
    /\ pc = "done"
    /\ articles0' = articles
    /\ pc' = "start"
    /\ unique' = << >> /\ to_fetch' = << >> /\ futures' = << >>
    /\ results' = << >>
    /\ attempted' = 0 /\ success' = 0 /\ cf_count' = 0
    /\ ret' = << >>
    /\ UNCHANGED <<articles, min_score, max_articles, max_chars, domainVars, fetchVars,
                   extractVars, mainVars>>

Next ==
    \/ Select
    \/ Submit
    \/ \E k \in 1..Len(futures) : WorkerStart(k)
    \/ \E k \in 1..Len(futures) : WorkerFinish(k)
    \/ \E k \in 1..Len(futures) : Collect(k)
    \/ Apply

Spec == Init /\ [][Next]_vars

\* the same, with further calls on the collection the call before has left
NextTwice == Next \/ Rerun

SpecTwice == Init /\ [][NextTwice]_vars

----------------------------------------------------------------------------
(* One call of enrich_articles on a collection of NLinks articles with     *)
(* distinct links, more than the pool has threads.  Every fourth link is   *)
(* fetched over the network, the others are on the deny-list.              *)

NLinks == 6

L_example == <<"h","t","t","p","s",":","/","/","e","x","a","m","p","l","e",".","c","o","m","/">>
L_github == <<"h","t","t","p","s",":","/","/","g","i","t","h","u","b",".","c","o","m","/">>

PoolLink(k) == (IF k % 4 = 1 THEN L_example ELSE L_github) \o IntToStr(k)

PoolScore(k) == DEFAULT_MIN_SCORE + (k % 2)

PoolCollection ==
    [k \in 1..NLinks |-> Article(Present(PoolLink(k)), Present(PoolScore(k)), AbsentStr)]

PoolMaxArticles == {0, DEFAULT_MAX_ARTICLES}

PoolMaxChars == {0, DEFAULT_MAX_CHARS}

InitPool ==
    /\ pc = "start"
    /\ articles = PoolCollection
    /\ articles0 = articles
    /\ min_score = DEFAULT_MIN_SCORE
    /\ max_articles \in PoolMaxArticles
    /\ max_chars \in PoolMaxChars
    /\ unique = << >> /\ to_fetch = << >> /\ futures = << >>
    /\ results = << >>
    /\ attempted = 0 /\ success = 0 /\ cf_count = 0
    /\ ret = << >>
    /\ IdleDomain
    /\ IdleFetch
    /\ IdleExtract
    /\ IdleMain

SpecPool == InitPool /\ [][Next]_vars

\* fetch k has been taken by a pool thread and has not returned
InFlight(k) == k <= Len(futures) /\ futures[k].state = "running"

\* the call with the default cap and budget
InitPoolLive ==
    /\ InitPool
    /\ max_articles = DEFAULT_MAX_ARTICLES
    /\ max_chars = DEFAULT_MAX_CHARS

\* that call when no thread stops for ever: the coordinator and the pool
\* threads take the step they can take, and no fetch stays in flight for
\* ever (every socket operation of urlopen is under TIMEOUT)
SpecPoolLive ==
    InitPoolLive /\ [][Next]_vars
    /\ WF_vars(Select) /\ WF_vars(Submit)
    /\ WF_vars(\E k \in 1..Len(futures) : WorkerStart(k))
    /\ WF_vars(\E k \in 1..Len(futures) : Collect(k))
    /\ WF_vars(Apply)
    /\ \A n \in 1..NLinks : []<>~InFlight(n)

----------------------------------------------------------------------------
(* Calls of enrich_articles on a collection of one article, whose link,    *)
(* score and full_text range over the cases the eligibility test           *)
(* separates.                                                              *)

L_www_blog == <<"h","t","t","p","s",":","/","/","w","w","w",".","s","i","m","o","n","w","i","l","l","i","s","o","n",".","n","e","t","/","a">>
L_upper_blog == <<"h","t","t","p","s",":","/","/","W","W","W",".","L","a","t","e","n","t",".","S","p","a","c","e","/","a">>
L_w_blog == <<"h","t","t","p","s",":","/","/","w","s","i","m","o","n","w","i","l","l","i","s","o","n",".","n","e","t","/","a">>

EligibleLinks ==
    {AbsentStr, Present(EmptyStr), Present(L_plain), Present(L_blog),
     Present(L_www_blog), Present(L_upper_blog), Present(L_w_blog)}

EligibleScores == {AbsentInt, Present(2), Present(3), Present(9), Present(10)}

EligibleFullTexts == {AbsentStr, Present(EmptyStr), Present(OldText)}

EligiblePool ==
    {Article(l, q, t) : l \in EligibleLinks, q \in EligibleScores,
                        t \in EligibleFullTexts}

InitEligible ==
    /\ pc = "start"
    /\ articles \in {<<a>> : a \in EligiblePool}
    /\ articles0 = articles
    /\ min_score \in MinScoreSettings
    /\ max_articles = DEFAULT_MAX_ARTICLES
    /\ max_chars = DEFAULT_MAX_CHARS
    /\ unique = << >> /\ to_fetch = << >> /\ futures = << >>
    /\ results = << >>
    /\ attempted = 0 /\ success = 0 /\ cf_count = 0
    /\ ret = << >>
    /\ IdleDomain
    /\ IdleFetch
    /\ IdleExtract
    /\ IdleMain

SpecEligible == InitEligible /\ [][Next]_vars
----------------------------------------------------------------------------
(* One run of main.  The input path holds nothing, text that is not JSON,  *)
(* JSON whose top level is not a mapping, or a document; a document may    *)
(* hold an article that is not a mapping, no eligible article, or a string *)
(* with a lone surrogate, which utf-8 cannot encode.                       *)

InputKinds ==
    {"missing", "unparseable", "not_mapping", "bad_article",
     "nothing_eligible", "document", "surrogate_document"}

OriginalFile == [state |-> "original", articles |-> << >>, enrichment |-> << >>]

PartialFile == [state |-> "partial", articles |-> << >>, enrichment |-> << >>]

WrittenFile(arts, enrichment) ==
    [state |-> "written", articles |-> arts, enrichment |-> enrichment]

\* lines 225-232: the articles of all topics, flattened
DocArticles(kind) ==
    IF kind = "nothing_eligible"
    THEN <<Article(Present(L_plain), Present(3), AbsentStr)>>
    ELSE <<Article(Present(L_plain), Present(12), AbsentStr),
           Article(Present(L_blog), Present(3), AbsentStr)>>

InitMain ==
    /\ m_pc = "start"
    /\ m_kind \in InputKinds
    /\ m_output \in {"input", "output"}
    /\ \E old \in {NoFile, OriginalFile} :
          m_files = [input |-> IF m_kind = "missing" THEN NoFile ELSE OriginalFile,
                     output |-> IF m_output = "output" THEN old ELSE NoFile]
    /\ m_data = NoData
    /\ m_exit = -1
    /\ IdleDomain
    /\ IdleFetch
    /\ IdleEnrich
    /\ IdleExtract

\* lines 215-219
MainCheckInput ==
    /\ m_pc = "start"
    /\ IF m_kind = "missing"
       THEN m_exit' = 1 /\ m_pc' = "exit"
       ELSE m_exit' = m_exit /\ m_pc' = "load"
    /\ UNCHANGED <<m_kind, m_output, m_files, m_data, domainVars, fetchVars,
                   enrichVars, extractVars>>

\* lines 221-235: load the document and call enrich_articles on its
\* articles; json.load raises on text that is not JSON and data.get on a
\* top level that is not a mapping (lines 250-252)
MainLoad ==
    /\ m_pc = "load"
    /\ IF m_kind \in {"unparseable", "not_mapping"}
       THEN /\ m_exit' = 1 /\ m_pc' = "exit"
            /\ UNCHANGED <<m_data, enrichVars>>
       ELSE /\ m_data' = [loaded |-> TRUE, enrichment |-> << >>]
            /\ m_pc' = "enrich"
            /\ m_exit' = m_exit
            /\ IF m_kind = "bad_article"
               THEN UNCHANGED enrichVars
               ELSE /\ pc' = "start"
                    /\ articles' = DocArticles(m_kind)
                    /\ articles0' = articles'
                    /\ min_score' = DEFAULT_MIN_SCORE
                    /\ max_articles' = DEFAULT_MAX_ARTICLES
                    /\ max_chars' = DEFAULT_MAX_CHARS
                    /\ UNCHANGED <<unique, to_fetch, futures, results, attempted,
                                   success, cf_count, ret>>
    /\ UNCHANGED <<m_kind, m_output, m_files, domainVars, fetchVars, extractVars>>

\* line 148 raises on an article that is not a mapping: enrich_articles
\* raises out of line 235 (lines 250-252)
MainEnrichRaises ==
    /\ m_pc = "enrich"
    /\ m_kind = "bad_article"
    /\ m_exit' = 1
    /\ m_pc' = "exit"
    /\ UNCHANGED <<m_kind, m_output, m_files, m_data, domainVars, fetchVars,
                   enrichVars, extractVars>>

\* lines 235-242: enrich_articles has returned
MainRecord ==
    /\ m_pc = "enrich"
    /\ pc = "done"
    /\ m_data' = [m_data EXCEPT !.enrichment = ret]
    /\ m_pc' = "write"
    /\ UNCHANGED <<m_kind, m_output, m_files, m_exit, domainVars, fetchVars,
                   enrichVars, extractVars>>

\* what open(output_path, "w") and json.dump can do: open raises (the
\* directory is missing, the path is not writable), or the file is emptied
\* and the dump either completes or raises on a string utf-8 cannot encode
WriteResults(kind) ==
    IF kind = "surrogate_document"
    THEN {"open_fails", "dump_fails"}
    ELSE {"open_fails", "written"}

\* MainWrite returning 0 whatever became of the write
MainWrite_AlwaysZero ==
    /\ m_pc = "write"
    /\ \E w \in WriteResults(m_kind) :
          /\ m_files' =
                CASE w = "written" ->
                        [m_files EXCEPT ![m_output] = WrittenFile(articles, m_data.enrichment)]
                  [] w = "dump_fails" -> [m_files EXCEPT ![m_output] = PartialFile]
                  [] OTHER -> m_files
          /\ m_exit' = 0
    /\ m_pc' = "exit"
    /\ UNCHANGED <<m_kind, m_output, m_data, domainVars, fetchVars, enrichVars,
                   extractVars>>

\* lines 244-252
MainWrite ==
    /\ m_pc = "write"
    /\ \E w \in WriteResults(m_kind) :
          /\ m_files' =
                CASE w = "written" ->
                        [m_files EXCEPT ![m_output] = WrittenFile(articles, m_data.enrichment)]
                  [] w = "dump_fails" -> [m_files EXCEPT ![m_output] = PartialFile]
                  [] OTHER -> m_files
          /\ m_exit' = IF w = "written" THEN 0 ELSE 1
    /\ m_pc' = "exit"
    /\ UNCHANGED <<m_kind, m_output, m_data, domainVars, fetchVars, enrichVars,
                   extractVars>>

NextMain ==
    \/ MainCheckInput
    \/ MainLoad
    \/ Next
    \/ MainEnrichRaises
    \/ MainRecord
    \/ MainWrite

SpecMain == InitMain /\ [][NextMain]_vars

----------------------------------------------------------------------------
(* Properties of enrich_articles *)

Selected == pc # "start"

InWorkList(i) == \E k \in 1..Len(to_fetch) : to_fetch[k] = i

SameFullText(a, b) ==
    /\ a.full_text = b.full_text
    /\ a.full_text_method = b.full_text_method
    /\ a.full_text_tokens = b.full_text_tokens

\* the collected outcome of WorkList entry k has no text
EmptyOutcome(k) ==
    futures[k].state = "collected" /\ futures[k].result.text = EmptyStr

\* article i is in the WorkList and its fetch came back without text
FetchedEmpty(i) ==
    \E k \in 1..Len(futures) : to_fetch[k] = i /\ EmptyOutcome(k)

\* the link of article i was fetched with a text outcome
LinkFetchedWithText(i) ==
    \E k \in 1..Len(futures) :
        /\ futures[k].state = "collected"
        /\ futures[k].url = LinkOrEmpty(articles0[i])
        /\ futures[k].result.text # EmptyStr

\* C1 as stated: after the return, every article outside the WorkList and
\* every article whose outcome had empty text has its three full_text
\* fields as before the call.
C1_NonMembersUntouched ==
    pc = "done" =>
        \A i \in 1..Len(articles) :
            (~InWorkList(i) \/ FetchedEmpty(i)) =>
                SameFullText(articles[i], articles0[i])

\* C1: an article keeps its three full_text fields unless its link is the
\* link of a WorkList entry whose outcome had text (and then only once the
\* outcomes are applied); no other field of any article changes.
C1_UntouchedUnlessLinkFetched ==
    \A i \in 1..Len(articles) :
        /\ ~(pc = "done" /\ LinkFetchedWithText(i)) => articles[i] = articles0[i]
        /\ articles[i].link = articles0[i].link
        /\ articles[i].quality_score = articles0[i].quality_score

C1_Witness ==
    /\ pc = "done"
    /\ \E i, j, m \in 1..Len(articles) :
        /\ articles[i] # articles0[i]
        /\ FetchedEmpty(j) /\ articles[j] = articles0[j]
        /\ ~InWorkList(m) /\ \E k \in 1..Len(unique) : unique[k] = m

\* C7: no article with a missing or empty link is in the WorkList, and no
\* fetch is submitted for an empty URL.
C7_NoEmptyLinkSelected ==
    /\ \A k \in 1..Len(unique) : Truthy(articles0[unique[k]].link)
    /\ \A k \in 1..Len(to_fetch) : Truthy(articles0[to_fetch[k]].link)
    /\ \A k \in 1..Len(futures) : futures[k].url # EmptyStr

C7_Witness ==
    /\ pc = "collect"
    /\ futures # << >>
    /\ \E i \in 1..Len(articles) :
        /\ ~articles0[i].link.has
        /\ Score(articles0[i]) > Score(articles0[to_fetch[1]])
    /\ \E i \in 1..Len(articles) :
        /\ articles0[i].link = Present(EmptyStr)
        /\ Score(articles0[i]) >= min_score

\* C8 as stated: no article that has a full_text field is in the WorkList,
\* and a later call submits no fetch for an article an earlier call enriched.
C8_FullTextNeverSelected ==
    /\ \A k \in 1..Len(to_fetch) : ~articles0[to_fetch[k]].full_text.has
    /\ \A i \in 1..Len(articles0) :
          articles0[i].full_text_method.has =>
              /\ ~InWorkList(i)
              /\ \A k \in 1..Len(futures) : futures[k].url # LinkOrEmpty(articles0[i])

\* C8: no article that has a non-empty full_text is in the WorkList, and a
\* later call submits no fetch for an article an earlier call enriched.
C8_NonEmptyFullTextNeverSelected ==
    /\ \A k \in 1..Len(to_fetch) : ~Truthy(articles0[to_fetch[k]].full_text)
    /\ \A i \in 1..Len(articles0) :
          articles0[i].full_text_method.has =>
              /\ ~InWorkList(i)
              /\ \A k \in 1..Len(futures) : futures[k].url # LinkOrEmpty(articles0[i])

C8_Witness ==
    /\ pc = "collect"
    /\ futures # << >>
    /\ \E i \in 1..Len(articles0) :
        /\ articles0[i].full_text_method.has
        /\ Score(articles0[i]) >= Score(articles0[to_fetch[1]])

SameLink(i, j) == articles0[i].link.val = articles0[j].link.val

EligibleAt(i) == IsEligible(articles0[i], min_score)

\* C9: of the eligible articles that share a link, the WorkList before
\* truncation holds exactly one, the first in collection order; no link is
\* twice in the WorkList and no URL is submitted twice.
C9_OnePerLinkTheFirst ==
    Selected =>
        /\ \A i \in 1..Len(articles0) :
              EligibleAt(i) =>
                  /\ Cardinality({k \in 1..Len(unique) : SameLink(unique[k], i)}) = 1
                  /\ \A k \in 1..Len(unique) :
                        SameLink(unique[k], i) =>
                            /\ unique[k] <= i
                            /\ EligibleAt(unique[k])
                            /\ \A j \in 1..(unique[k] - 1) :
                                  ~(EligibleAt(j) /\ SameLink(j, i))
        /\ \A k1, k2 \in 1..Len(to_fetch) :
              k1 # k2 => ~SameLink(to_fetch[k1], to_fetch[k2])
        /\ \A k1, k2 \in 1..Len(futures) :
              k1 # k2 => futures[k1].url # futures[k2].url

C9_Witness ==
    /\ pc = "collect"
    /\ \E i, j \in 1..Len(articles0) :
        /\ i < j
        /\ EligibleAt(i) /\ EligibleAt(j) /\ SameLink(i, j)
        /\ articles0[i] # articles0[j]
        /\ InWorkList(i)

NonIncreasing(seq) ==
    \A k \in 1..(Len(seq) - 1) :
        Score(articles0[seq[k]]) >= Score(articles0[seq[k + 1]])

\* C10 as stated: for every max_articles the WorkList has at most
\* max_articles entries and is ordered by non-increasing quality_score.
C10_AtMostMaxArticlesSorted ==
    Selected => (Len(to_fetch) <= max_articles /\ NonIncreasing(to_fetch))

\* C10: for every max_articles >= 0 the WorkList has at most max_articles
\* entries, and for every max_articles it is ordered by non-increasing
\* quality_score (a missing score counting as 0).
C10_AtMostNonNegativeMaxSorted ==
    Selected =>
        /\ max_articles >= 0 => Len(to_fetch) <= max_articles
        /\ NonIncreasing(to_fetch)
        /\ NonIncreasing(unique)

C10_Witness ==
    /\ Selected
    /\ max_articles >= 1
    /\ Len(unique) > max_articles
    /\ Len(to_fetch) = max_articles
    /\ Score(articles0[unique[1]]) > Score(articles0[unique[Len(unique)]])
    /\ \E i \in 1..Len(articles0) : EligibleAt(i) /\ ~articles0[i].quality_score.has

----------------------------------------------------------------------------
(* Counters of enrich_articles *)

\* C11: throughout the collection loop and at the return,
\* 0 <= cf_markdown <= success <= attempted <= size of the WorkList, and the
\* returned triple is ordered the same way; when the WorkList is empty the
\* call returns (0, 0, 0) at once and no fetch is ever submitted.
C11_CountersOrdered ==
    /\ 0 <= cf_count /\ cf_count <= success
    /\ success <= attempted /\ attempted <= Len(to_fetch)
    /\ pc = "done" =>
          /\ 0 <= ret[3] /\ ret[3] <= ret[2]
          /\ ret[2] <= ret[1] /\ ret[1] <= Len(to_fetch)
    /\ (Selected /\ to_fetch = << >>) =>
          /\ pc = "done"
          /\ ret = <<0, 0, 0>>
          /\ futures = << >>

C11_Witness ==
    /\ pc = "done"
    /\ to_fetch # << >>
    /\ 0 < ret[3] /\ ret[3] < ret[2]
    /\ ret[2] < ret[1] /\ ret[1] = Len(to_fetch)

\* the submitted fetches whose outcome has text / has the method cf-markdown
WithText ==
    {k \in 1..Len(futures) :
        futures[k].state \in {"done", "collected"} /\ futures[k].result.text # EmptyStr}

ViaMarkdown == {k \in 1..Len(futures) : futures[k].result.method = "cf-markdown"}

\* C12 as stated: at the return, attempted is the number of submitted
\* fetches (the WorkList size), success the number of outcomes with text and
\* cf_markdown the number of outcomes whose method is cf-markdown.
C12_CountersCountOutcomes ==
    pc = "done" =>
        /\ ret[1] = Len(futures) /\ ret[1] = Len(to_fetch)
        /\ ret[2] = Cardinality(WithText)
        /\ ret[3] = Cardinality(ViaMarkdown)

\* C12: at the return, attempted is the number of submitted fetches (the
\* WorkList size), success the number of outcomes with text and cf_markdown
\* the number of outcomes with text whose method is cf-markdown.
C12_MarkdownCountedWithText ==
    pc = "done" =>
        /\ ret[1] = Len(futures) /\ ret[1] = Len(to_fetch)
        /\ ret[2] = Cardinality(WithText)
        /\ ret[3] = Cardinality(ViaMarkdown \cap WithText)

C12_Witness ==
    /\ pc = "done"
    /\ ret[1] = NLinks
    /\ ret[2] = Cardinality(WithText) /\ ret[2] = 2
    /\ ret[3] = 1
    /\ \E k \in 1..Len(futures) : futures[k].result.method = "html-extract"
    /\ \E k \in 1..Len(futures) : futures[k].result.method = "skipped"

----------------------------------------------------------------------------
(* The thread pool *)

\* the only steps of a future: queued, running, done, collected, in this
\* order, the outcome fixed from done on
FutureStep(old, new) ==
    /\ new.url = old.url
    /\ \/ new = old
       \/ old.state = "queued" /\ new.state = "running" /\ new.result = old.result
       \/ old.state = "running" /\ new.state = "done"
       \/ old.state = "done" /\ new.state = "collected" /\ new.result = old.result

FuturesAdvance ==
    /\ Len(futures') >= Len(futures)
    /\ \A k \in 1..Len(futures) : FutureStep(futures[k], futures'[k])

OnePerEntry ==
    pc \in {"collect", "done"} =>
        /\ Len(futures) = Len(to_fetch)
        /\ \A k \in 1..Len(futures) :
              futures[k].url = articles0[to_fetch[k]].link.val

AllCollected ==
    pc = "done" /\ \A k \in 1..Len(futures) : futures[k].state = "collected"

\* C13: at most 5 fetches are in flight at any time, whatever the size of
\* the WorkList; there is one future per WorkList entry, a future only
\* moves from queued to running to done to collected (one attempt, no
\* retry, none cancelled), and every submitted fetch is eventually run and
\* collected.
C13_AtMostFiveInFlight ==
    /\ [](Cardinality(Running) <= 5 /\ OnePerEntry)
    /\ [][FuturesAdvance]_vars
    /\ (pc = "submit") ~> AllCollected

C13_Witness ==
    /\ Cardinality(Running) = 5
    /\ Len(to_fetch) > 5
    /\ \E k \in 1..Len(futures) : futures[k].state = "queued"

----------------------------------------------------------------------------
(* Order of the writes *)

Pending == {k \in 1..Len(futures) : futures[k].state # "collected"}

\* a step of a pool thread: a future is taken from the queue or completed
WorkerStep ==
    \E k \in 1..Len(futures) :
        /\ k <= Len(futures')
        /\ \/ futures[k].state = "queued" /\ futures'[k].state = "running"
           \/ futures[k].state = "running" /\ futures'[k].state = "done"

\* C14: while a submitted fetch is queued, in flight or not yet collected,
\* every article is as it was at the call; a step that changes an article is
\* taken by the coordinator with every future collected; and a step of a
\* pool thread changes neither the outcome map nor the counters nor an
\* article.
C14_WritesAfterAllCollected ==
    /\ [](Pending # {} => articles = articles0)
    /\ [][articles' # articles => (pc = "collect" /\ Pending = {})]_vars
    /\ [][WorkerStep => UNCHANGED <<results, attempted, success, cf_count, articles, ret>>]_vars

C14_Witness ==
    /\ pc = "collect"
    /\ \E k \in 1..Len(futures) :
          futures[k].state = "collected" /\ futures[k].result.text # EmptyStr
    /\ \E k \in 1..Len(futures) : futures[k].state = "running"
    /\ \E k \in 1..Len(futures) : futures[k].state = "queued"
    /\ articles = articles0

----------------------------------------------------------------------------
(* Independence of the completion order *)

CollectedSet == {k \in 1..Len(futures) : futures[k].state = "collected"}

\* the outcome of every URL in K, whatever the order the futures completed in
OutcomeMap(K) ==
    [u \in {futures[k].url : k \in K} |->
        futures[CHOOSE k \in K : futures[k].url = u].result]

CountsOf(K) ==
    <<Cardinality(K),
      Cardinality(K \cap WithText),
      Cardinality(K \cap WithText \cap ViaMarkdown)>>

\* C15: the outcome map and the counters are a function of the set of
\* futures collected so far and of their outcomes, and after the return the
\* articles and the returned triple are a function of the collection at the
\* call and of the outcome of every URL: the order in which the fetches
\* completed has no part in them.
C15_FinalStateFromOutcomes ==
    /\ pc \in {"collect", "done"} =>
          /\ results = OutcomeMap(CollectedSet)
          /\ <<attempted, success, cf_count>> = CountsOf(CollectedSet)
    /\ (pc = "done" /\ futures # << >>) =>
          /\ articles = [i \in 1..Len(articles0) |->
                            Applied(articles0[i], OutcomeMap(1..Len(futures)))]
          /\ ret = CountsOf(1..Len(futures))

C15_Witness ==
    /\ pc = "collect"
    /\ \E k1, k2 \in 1..Len(futures) :
          /\ k1 < k2
          /\ futures[k1].state = "running"
          /\ futures[k2].state = "collected"
          /\ futures[k2].result.text # EmptyStr
    /\ \E k \in 1..Len(futures) :
          futures[k].state = "collected" /\ futures[k].result.text = EmptyStr
    /\ success > 0

----------------------------------------------------------------------------
(* The text extract_readable_text returns *)

IsSkipTag(ev) == ev.type \in {"start", "end"} /\ ev.tag \in skip_tags

IsData(ev) == ev.type = "data"

\* position i of evs lies inside a non-content element: after its start-tag
\* and not after its end-tag
Inside(evs, i) ==
    \E j \in 1..(i - 1) :
        /\ evs[j].type = "start" /\ evs[j].tag \in skip_tags
        /\ \A k \in (j + 1)..(i - 1) : ~IsEnd(evs[k], evs[j].tag)

\* the non-content elements of evs are closed and none lies in another:
\* the non-content tags come as start-tag, matching end-tag, start-tag, ...
ProperlyClosed(evs) ==
    LET all == [i \in 1..Len(evs) |-> i]
        at == KeepWhere(all, [i \in 1..Len(evs) |-> IsSkipTag(evs[i])])
    IN  /\ Len(at) % 2 = 0
        /\ \A m \in 1..Len(at) :
              IF m % 2 = 1
              THEN evs[at[m]].type = "start"
              ELSE evs[at[m]].type = "end" /\ evs[at[m]].tag = evs[at[m - 1]].tag

\* positions i .. i + 5 of evs are two block elements with text, one after
\* the other, outside the non-content elements
TwoBlocks(evs, i) ==
    /\ i + 5 <= Len(evs)
    /\ evs[i].type = "start" /\ evs[i].tag \in block_tags \ {T_br}
    /\ IsData(evs[i + 1]) /\ IsEnd(evs[i + 2], evs[i].tag)
    /\ evs[i + 3].type = "start" /\ evs[i + 3].tag \in block_tags \ {T_br}
    /\ IsData(evs[i + 4]) /\ IsEnd(evs[i + 5], evs[i + 3].tag)
    /\ ~Inside(evs, i + 1) /\ ~Inside(evs, i + 4)

OccursAt(s, sub, a) == a + Len(sub) - 1 <= Len(s) /\ SubSeq(s, a, a + Len(sub) - 1) = sub

\* s holds first, then a line break, then second
LineBreakBetween(s, first, second) ==
    \E a, b \in 1..Len(s) :
        /\ OccursAt(s, first, a) /\ OccursAt(s, second, b)
        /\ \E n \in (a + Len(first))..(b - 1) : s[n] = "\n"

\* the post-processing of get_text applied to one piece of text
Cleaned(s) == Strip(CollapseNewlines(CollapseBlanks(s)))

\* the text at position i of evs is also the text of a position outside the
\* non-content elements
AlsoOutside(evs, i) ==
    \E j \in 1..Len(evs) :
        IsData(evs[j]) /\ ~Inside(evs, j) /\ evs[j].data = evs[i].data

\* the same, for texts that are equal once cleaned
AlsoOutsideCleaned(evs, i) ==
    \E j \in 1..Len(evs) :
        /\ IsData(evs[j]) /\ ~Inside(evs, j)
        /\ Cleaned(evs[j].data) = Cleaned(evs[i].data)

Region == ArticleFragment(x_doc)

----------------------------------------------------------------------------
(* The exit status and the files of main *)

Touched(f) == m_files[f].state \in {"partial", "written"}

\* the input cannot be located or parsed, or enrich_articles raises
InputFails == m_kind \in {"missing", "unparseable", "not_mapping", "bad_article"}

\* C17 as stated: no file is written before enrich_articles has returned; when
\* the input is missing or cannot be parsed, or enrich_articles raises, main
\* returns 1 and has written neither path; otherwise it returns 0 and the
\* output path holds the document with the enrichment object made of the
\* returned counters.
C17_ExitStatusAndFiles ==
    /\ (Touched("input") \/ Touched("output")) => (pc = "done" /\ m_pc = "exit")
    /\ (m_pc = "exit" /\ InputFails) =>
          /\ m_exit = 1
          /\ ~Touched("input") /\ ~Touched("output")
    /\ (m_pc = "exit" /\ ~InputFails) =>
          /\ m_exit = 0
          /\ m_files[m_output] = WrittenFile(articles, ret)

\* C17: no file is written before enrich_articles has returned; when the
\* input is missing or cannot be parsed into a mapping, or enrich_articles
\* raises, main returns 1 and has written neither path; otherwise main
\* returns 0 exactly when the write has succeeded, and then the output path
\* holds the document with the enrichment object made of the returned
\* counters; when the write fails main returns 1 and the output path is as
\* it was or holds a partial document; a path that is not the output path
\* is never written.
C17_ExitZeroIffWritten ==
    /\ (Touched("input") \/ Touched("output")) => (pc = "done" /\ m_pc = "exit")
    /\ (m_pc = "exit" /\ InputFails) =>
          /\ m_exit = 1
          /\ ~Touched("input") /\ ~Touched("output")
    /\ (m_pc = "exit" /\ ~InputFails) =>
          /\ m_exit \in {0, 1}
          /\ m_exit = 0 <=> m_files[m_output] = WrittenFile(articles, ret)
          /\ m_exit = 1 => m_files[m_output].state \in {"absent", "original", "partial"}
    /\ m_output = "output" => ~Touched("input")
    /\ m_output = "input" => ~Touched("output")

C17_Witness ==
    /\ m_pc = "exit"
    /\ m_exit = 0
    /\ m_kind = "document"
    /\ m_output = "input"
    /\ m_files["input"] = WrittenFile(articles, ret)
    /\ ret[2] > 0
    /\ articles # articles0

----------------------------------------------------------------------------
(* Eligibility *)

\* the article of a one-article collection has passed the eligibility loop
PassedFilter == unique # << >>

\* the predicate of the claim, on the host with one "www." prefix removed;
\* an empty full_text counts as none
StatedEligible(a, minScore) ==
    /\ Truthy(a.link)
    /\ ~Truthy(a.full_text)
    /\ \/ Score(a) >= minScore
       \/ (NormalizedHost(LinkOrEmpty(a)) \in blog_domains /\ Score(a) >= 3)

\* C18 as stated: an article passes the eligibility filter exactly when it
\* has a non-empty link, no full_text, and a score of at least min_score or
\* a blog allow-list host (lower-cased, one leading "www." removed, compared
\* for equality) with a score of at least 3.
C18_EligibleIffStatedPredicate ==
    (Selected /\ Len(articles0) = 1) =>
        (PassedFilter <=> StatedEligible(articles0[1], min_score))

----------------------------------------------------------------------------
(* Order of the WorkList *)

\* article i is eligible and no eligible article before it has its link
FirstOfItsLink(i) ==
    /\ EligibleAt(i)
    /\ \A j \in 1..(i - 1) : ~(EligibleAt(j) /\ SameLink(j, i))

\* seq lists every deduplicated eligible article once, by descending score,
\* articles of equal score in collection order
StableDescending(seq) ==
    /\ {seq[k] : k \in 1..Len(seq)} = {i \in 1..Len(articles0) : FirstOfItsLink(i)}
    /\ \A k1, k2 \in 1..Len(seq) :
          k1 < k2 =>
              \/ Score(articles0[seq[k1]]) > Score(articles0[seq[k2]])
              \/ /\ Score(articles0[seq[k1]]) = Score(articles0[seq[k2]])
                 /\ seq[k1] < seq[k2]

LeftOut == {unique[k] : k \in 1..Len(unique)} \ {to_fetch[k] : k \in 1..Len(to_fetch)}

\* no article left out ranks before an article of the WorkList
CutRespectsOrder ==
    \A i \in LeftOut : \A k \in 1..Len(to_fetch) :
        /\ Score(articles0[i]) <= Score(articles0[to_fetch[k]])
        /\ Score(articles0[i]) = Score(articles0[to_fetch[k]]) => to_fetch[k] < i

FirstN(seq, n) == SubSeq(seq, 1, IF n < Len(seq) THEN n ELSE Len(seq))

\* C19 as stated: the WorkList is the first max_articles elements of the
\* stable descending sort of the deduplicated eligible articles, and no
\* article left out ranks before an article in it.
C19_FirstMaxArticlesOfStableSort ==
    Selected =>
        /\ StableDescending(unique)
        /\ to_fetch = FirstN(unique, max_articles)
        /\ CutRespectsOrder

\* C19: the same for max_articles >= 0; for a negative max_articles the
\* WorkList is the stable descending sort without its last -max_articles
\* elements.
C19_PrefixOfStableSort ==
    Selected =>
        /\ StableDescending(unique)
        /\ max_articles >= 0 => to_fetch = FirstN(unique, max_articles)
        /\ max_articles < 0 => to_fetch = FirstN(unique, Len(unique) + max_articles)
        /\ CutRespectsOrder

C19_Witness ==
    /\ Selected
    /\ max_articles = 1
    /\ Len(to_fetch) = 1
    /\ Len(unique) = 3
    /\ unique[1] > unique[3]
    /\ unique[1] < unique[2]
    /\ Score(articles0[unique[1]]) = Score(articles0[unique[2]])

----------------------------------------------------------------------------
(* Text Extractor as a state machine *)

IsSkipStart(ev) == ev.type = "start" /\ ev.tag \in skip_tags

IsSkipEnd(ev) == ev.type = "end" /\ ev.tag \in skip_tags

IsBlockEnd(ev) == ev.type = "end" /\ ev.tag \in block_tags

\* the flag after the first n events: set when the last start or end of a
\* non-content tag among them is a start
FlagAfter(evs, n) ==
    LET marks == {j \in 1..n : IsSkipStart(evs[j]) \/ IsSkipEnd(evs[j])}
    IN  marks # {} /\ IsSkipStart(evs[Max(marks)])

\* what event i adds to the buffer
AddedBy(evs, i) ==
    IF evs[i].type = "data" /\ ~FlagAfter(evs, i - 1) THEN evs[i].data
    ELSE IF IsBlockEnd(evs[i]) THEN <<"\n">>
    ELSE EmptyStr

RECURSIVE BufferAfter(_, _)
BufferAfter(evs, n) ==
    IF n = 0 THEN EmptyStr ELSE BufferAfter(evs, n - 1) \o AddedBy(evs, n)

\* two non-content tags were entered, one was left, and no start or end of
\* a non-content tag has followed
LeftOneOfTwo(evs) ==
    \E i, j, k \in 1..Len(evs) :
        /\ i < j /\ j < k
        /\ IsSkipStart(evs[i]) /\ IsSkipStart(evs[j]) /\ IsSkipEnd(evs[k])
        /\ \A m \in (i + 1)..(k - 1) : m # j => ~(IsSkipStart(evs[m]) \/ IsSkipEnd(evs[m]))
        /\ \A m \in (k + 1)..Len(evs) : ~(IsSkipStart(evs[m]) \/ IsSkipEnd(evs[m]))

\* C20: after any sequence of events the flag is set exactly when the last
\* start or end of a non-content tag was a start (so it is clear after two
\* nested non-content tags were entered and one was left), and the buffer
\* holds, in order, every text event that came while the flag was clear and
\* one newline for every end-tag of p, br, div, h1, h2, h3, h4 or li,
\* whatever the flag was.
C20_FlagAndBuffer ==
    x_pc = "feed" =>
        /\ x_st.skip = FlagAfter(x_doc, Len(x_doc))
        /\ x_st.text = BufferAfter(x_doc, Len(x_doc))
        /\ LeftOneOfTwo(x_doc) => ~x_st.skip

C20_Witness ==
    /\ x_pc = "feed"
    /\ LeftOneOfTwo(x_doc)
    /\ \E i \in 1..Len(x_doc) : IsBlockEnd(x_doc[i]) /\ FlagAfter(x_doc, i - 1)
    /\ \E i \in 1..Len(x_doc) : x_doc[i].type = "data" /\ ~FlagAfter(x_doc, i - 1)
    /\ \E i \in 1..Len(x_doc) : IsSkipStart(x_doc[i]) /\ FlagAfter(x_doc, i - 1)
    /\ x_st.text = <<"\n", "a">>

====
